---- MODULE Spec2Model ----
(***************************************************************************)
(* AppInsightsCore (vNext/shared/AppInsightsCore/src/JavaScriptSDK/        *)
(* AppInsightsCore.ts): the composition-and-dispatch core of the SDK.      *)
(*                                                                         *)
(* One AppInsightsCore instance is modelled.  Every public method is one   *)
(* action that runs the whole method, up to its return or its throw; the   *)
(* error it throws (or "none") is left in err, the hook calls it made on   *)
(* its collaborators, in order, in calls.  Plugins, listeners and the      *)
(* channel controller are objects outside the class: a plugin is known by  *)
(* its name, its hooks and priority are fixed, and the successor it was    *)
(* last given through setNextPlugin is kept in next.                       *)
(*                                                                         *)
(* Spec is the core as its callers drive it.  SpecLogging adds the         *)
(* diagnostic logger at work: messages are queued, pollInternalLogs starts *)
(* the timer and the timer's callback drains the queue through track.      *)
(***************************************************************************)
EXTENDS Integers, Sequences, FiniteSets, TLC

\* ------------------------------------------------------------------ bounds

\* Plugins handed to one instance over all its initialize calls.
MaxPlugins == 2
\* initialize calls that get as far as appending the channel controller.
MaxInitCalls == 2
\* Plugins listed in config.extensions at one initialize call.
MaxConfigExtensions == 1
\* Registrations held by the notification manager.
MaxListeners == 2
\* Diagnostic messages logged over the life of one instance.
MaxMessages == 2
\* Times the poll timer's callback hands one message to track.
MaxSubmissions == 2

\* ------------------------------------------------------------------ values

\* JavaScript's undefined, and the empty string (falsy, yet not null/undefined).
Undef == "undefined"
Empty == ""

\* CoreUtils.isNullOrUndefined
IsNullOrUndefined(v) == v = Undef

\* JavaScript truthiness of a string-or-undefined value: !v is true of undefined and "".
Falsy(v) == v = Undef \/ v = Empty

\* The plugin objects a caller can put in a list.  "null" is a null entry;
\* "noinit" an object without an initialize hook; "i1" an initialization-only
\* plugin (initialize, no processTelemetry, no priority); the others are
\* processing plugins.
NullPlugin == "null"
Plugins == {NullPlugin, "noinit", "i1", "a", "b", "e", "h"}

\* Two more processing plugins, both with priority 0.
ZeroPriorityPlugins == {"z1", "z2"}

\* this._channelController, built by the constructor.
ChannelController == "cc"

\* ChannelController.priority.  Only its order against the plugins' priorities matters.
ChannelControllerPriority == 500

HasInitialize(p) == p \in {"i1", "a", "b", "e", "h", ChannelController} \cup ZeroPriorityPlugins

\* typeof p.processTelemetry === 'function'
HasProcessTelemetry(p) == p \in {"a", "b", "e", "h", ChannelController} \cup ZeroPriorityPlugins

\* p.priority of a processing plugin ("i1" and "noinit" have none: see HasPriority).
Priority(p) ==
    CASE p = "a" -> 100
      [] p = "b" -> 200
      [] p = "e" -> ChannelControllerPriority
      [] p = "h" -> 600
      [] p = ChannelController -> ChannelControllerPriority
      [] OTHER -> 0

\* p.priority is a number (undefined otherwise; every comparison with undefined is false).
HasPriority(p) == HasProcessTelemetry(p)

\* p.identifier: the plugins are told apart by their identifiers.
Identifier(p) == p

\* The registered-listener objects; each implements eventsDiscarded.
Listeners == {"l1", "l2"}

RECURSIVE SeqsUpTo(_, _)
\* All sequences over S of length at most n.
SeqsUpTo(S, n) ==
    IF n = 0 THEN {<<>>}
    ELSE LET shorter == SeqsUpTo(S, n - 1)
         IN  shorter \cup {Append(s, x) : s \in {t \in shorter : Len(t) = n - 1}, x \in S}

\* IConfiguration as a caller passes it: null, or an object whose
\* instrumentationKey is undefined, "" or a key, and whose extensions list
\* (absent is the same as empty after line 50) holds plugins.
NullConfig == [isNull |-> TRUE, instrumentationKey |-> Undef, extensions |-> <<>>]
ConfigOf(key, exts) == [isNull |-> FALSE, instrumentationKey |-> key, extensions |-> exts]
InstrumentationKeys == {Undef, Empty, "ikey"}

\* ITelemetryItem as a caller passes it: null, or an object with the fields present or not.
NullItem == [isNull |-> TRUE, name |-> Undef, iKey |-> Undef, time |-> Undef, ver |-> Undef]
Items ==
    {NullItem} \cup
    [isNull : {FALSE}, name : {Undef, "evt"}, iKey : {Undef, Empty, "k1"},
     time : {Undef, "t0"}, ver : {Undef, "1.0"}]

\* A hook call: which hook, on which object, with which plugin argument, made by whom.
Call(hook, on, arg, by) == [hook |-> hook, on |-> on, arg |-> arg, by |-> by]

\* ------------------------------------------------------------------- state

VARIABLES
    _isInitialized,       \* this._isInitialized
    _extensions,          \* this._extensions
    config,              \* this.config ([defined |-> FALSE ...] until initialize assigns it)
    _notificationManager, \* this._notificationManager: [defined, listeners]
    _channelController,   \* this._channelController: [initialized, channelQueue]
    next,                \* plugin -> the successor its setNextPlugin was last given
    logger,              \* this.logger: [defined, queue], the queue holding message ids
    op,                  \* the last call made on the core (track's item, the listener given)
    err,                 \* the error that call threw, or "none"
    calls,               \* the hook calls that call made, in order
    ret,                 \* the telemetry item as track left it / the value returned
    warned,              \* the warnToConsole messages of that call, in order
    tracked,             \* the ids of the messages that call handed to track, in order
    polling,             \* a timer started by pollInternalLogs is running
    messageCount,        \* diagnostic messages logged so far; the next one gets the next id
    submitted            \* message id -> times the timer's callback handed it to track

vars == <<_isInitialized, _extensions, config, _notificationManager, _channelController,
          next, logger, op, err, calls, ret, warned, tracked, polling, messageCount, submitted>>

coreVars == <<_isInitialized, _extensions, config, _notificationManager, _channelController,
              next, logger>>

\* What only the logger's users and the poll timer change.
pollVars == <<polling, messageCount, submitted>>

NoItem == NullItem
NoOp == [name |-> "new", item |-> NoItem, listener |-> "none", key |-> "none"]
OpOf(name, item, listener) == [name |-> name, item |-> item, listener |-> listener, key |-> "none"]

\* An initialize call, with what it was given for a configuration: "null", or the
\* instrumentationKey of the object.
KeyOf(cfg) == IF cfg.isNull THEN "null" ELSE cfg.instrumentationKey
InitializeOp(cfg) == [OpOf("initialize", NoItem, "none") EXCEPT !.key = KeyOf(cfg)]

UndefinedConfig == [defined |-> FALSE, instrumentationKey |-> Undef, extensions |-> <<>>]

NoReturn == [kind |-> "none", item |-> NoItem, controls |-> <<>>]

\* constructor() and the field initialisers
Init ==
    /\ _isInitialized = FALSE
    /\ _extensions = <<>>
    /\ config = UndefinedConfig
    /\ _notificationManager = [defined |-> FALSE, listeners |-> <<>>]
    /\ _channelController = [initialized |-> FALSE, channelQueue |-> <<>>]
    /\ next = [p \in Plugins \cup ZeroPriorityPlugins \cup {ChannelController} |-> "none"]
    /\ logger = [defined |-> FALSE, queue |-> <<>>]
    /\ op = NoOp
    /\ err = "none"
    /\ calls = <<>>
    /\ ret = NoReturn
    /\ warned = <<>>
    /\ tracked = <<>>
    /\ polling = FALSE
    /\ messageCount = 0
    /\ submitted = [m \in 1..MaxMessages |-> 0]

\* -------------------------------------------------------------- initialize

\* A core that never remembers it was initialized.
AlreadyInitialized_Never == FALSE

\* Lines 39-41: the core is initialized only once.
AlreadyInitialized == _isInitialized

\* Lines 43-45: !config || isNullOrUndefined(config.instrumentationKey)
InvalidConfiguration(cfg) == cfg.isNull \/ IsNullOrUndefined(cfg.instrumentationKey)

\* Line 59: this._extensions.push(...extensions, ...this.config.extensions)
Concat(exts, cfgExts) == _extensions \o exts \o cfgExts

\* A validation that looks for null entries only.
IsValidExtension_NullOnly(p) == p # NullPlugin

\* Lines 63-66: isValid of one extension.
IsValidExtension(p) == ~(p = NullPlugin \/ ~HasInitialize(p))

\* Lines 62-70: the forEach throws at the first extension that is not valid.
AllValid(s) == \A i \in 1..Len(s) : IsValidExtension(s[i])

\* A comparator that orders by priority only and calls everything else equal.
Compare_PriorityOnly(a, b) ==
    IF HasProcessTelemetry(a) /\ HasProcessTelemetry(b) THEN Priority(a) - Priority(b) ELSE 0

\* Lines 76-93: the sort comparator.  With two extensions that both lack
\* processTelemetry it returns undefined, which sort reads as +0.
Compare(a, b) ==
    IF HasProcessTelemetry(a) /\ HasProcessTelemetry(b) THEN Priority(a) - Priority(b)
    ELSE IF HasProcessTelemetry(a) /\ ~HasProcessTelemetry(b) THEN 1
    ELSE IF ~HasProcessTelemetry(a) /\ HasProcessTelemetry(b) THEN -1
    ELSE 0

RECURSIVE InsertSorted(_, _)
\* x put into the sorted s behind every element that does not compare greater.
InsertSorted(x, s) ==
    IF s = <<>> THEN <<x>>
    ELSE IF Compare(Head(s), x) > 0 THEN <<x>> \o s
    ELSE <<Head(s)>> \o InsertSorted(x, Tail(s))

RECURSIVE SortFrom(_, _)
SortFrom(sorted, rest) ==
    IF rest = <<>> THEN sorted
    ELSE SortFrom(InsertSorted(Head(rest), sorted), Tail(rest))

\* The list left in the order it was given.
SortExtensions_Unsorted(s) == s

\* Line 76: Array.prototype.sort under Compare.  The sort is stable: elements
\* that compare equal keep their order.
SortExtensions(s) == SortFrom(<<>>, s)

\* Line 100: t && t.priority, true of a priority that is a number other than 0.
HasTruthyPriority(p) == p # NullPlugin /\ HasPriority(p) /\ Priority(p) # 0

\* A warnToConsole message: "Two extensions have same priority" + previous + ", " + colliding.
Warning(previous, colliding) == [previous |-> previous, colliding |-> colliding]

RECURSIVE WarnFrom(_, _)
WarnFrom(s, i) ==
    IF i > Len(s) THEN <<>>
    ELSE LET earlier == {j \in 1..(i - 1) :
                            HasTruthyPriority(s[j]) /\ Priority(s[j]) = Priority(s[i])}
             first == CHOOSE j \in earlier : \A k \in earlier : j <= k
         IN  (IF HasTruthyPriority(s[i]) /\ earlier # {}
              THEN <<Warning(Identifier(s[first]), Identifier(s[i]))>>
              ELSE <<>>)
             \o WarnFrom(s, i + 1)

\* Lines 96-107: the warnings of the duplicate-priority check over the sorted
\* list.  priority[t.priority] keeps the identifier of the first extension seen
\* with that priority; every later one with the same priority is warned about.
DuplicateWarnings(s) == WarnFrom(s, 1)

RECURSIVE LinkFrom(_, _)
LinkFrom(s, idx) ==
    IF idx > Len(s) - 1 THEN <<>>
    ELSE IF ~HasProcessTelemetry(s[idx]) THEN LinkFrom(s, idx + 1)
    ELSE IF Priority(s[idx]) = ChannelControllerPriority THEN <<>>
    ELSE <<Call("setNextPlugin", s[idx], s[idx + 1], "core")>> \o LinkFrom(s, idx + 1)

\* Lines 109-124: the setNextPlugin calls of the linking loop over the sorted list.
LinkCalls(s) == LinkFrom(s, 1)

\* The channel plugins of a list: the ones ordered behind the channel controller.
IsChannelPlugin(p) == HasPriority(p) /\ Priority(p) > ChannelControllerPriority

\* ChannelController.initialize(config, core, extensions): initializes the
\* channel plugins of the list, chains them, and keeps them as its one channel
\* group; no channel plugin, no group.
ChannelControllerInitialize(s) ==
    LET queue == SelectSeq(s, IsChannelPlugin)
    IN  [calls |->
            <<Call("initialize", ChannelController, "none", "core")>>
            \o [i \in 1..Len(queue) |-> Call("initialize", queue[i], "none", "cc")]
            \o [i \in 1..(Len(queue) - 1) |-> Call("setNextPlugin", queue[i], queue[i + 1], "cc")],
         channelQueue |-> IF queue = <<>> THEN <<>> ELSE <<queue>>]

\* Line 132: e && e.priority < this._channelController.priority
IsRegularPlugin(p) == HasPriority(p) /\ Priority(p) < ChannelControllerPriority

\* Lines 130-135: the initialize calls on the remaining regular plugins.
InitializeCalls(s) ==
    LET regular == SelectSeq(s, IsRegularPlugin)
    IN  [i \in 1..Len(regular) |-> Call("initialize", regular[i], "none", "core")]

\* Lines 126-135: the channel controller first, then the regular plugins.
InitializePhase(s) == ChannelControllerInitialize(s).calls \o InitializeCalls(s)

\* The channel check left out.
NoChannels_Unchecked(queue) == FALSE

\* Lines 137-140: this.getTransmissionControls().length === 0 throws, anything else
\* sets _isInitialized.
NoChannels(queue) == Len(queue) = 0

RECURSIVE ApplyCalls(_, _)
\* The successors the plugins hold after the setNextPlugin calls of cs.
ApplyCalls(nx, cs) ==
    IF cs = <<>> THEN nx
    ELSE ApplyCalls(IF Head(cs).hook = "setNextPlugin"
                    THEN [nx EXCEPT ![Head(cs).on] = Head(cs).arg] ELSE nx,
                    Tail(cs))

Count(s, x) == Cardinality({i \in 1..Len(s) : s[i] = x})

\* initialize(config, extensions)
Initialize(cfg, exts) ==
    /\ Count(_extensions, ChannelController) < MaxInitCalls
    /\ op' = InitializeOp(cfg)
    /\ ret' = NoReturn
    /\ tracked' = <<>>
    /\ UNCHANGED pollVars
    /\ IF AlreadyInitialized
       THEN /\ err' = "Core should not be initialized more than once"
            /\ calls' = <<>>
            /\ warned' = <<>>
            /\ UNCHANGED coreVars
       ELSE IF InvalidConfiguration(cfg)
       THEN /\ err' = "Please provide instrumentation key"
            /\ calls' = <<>>
            /\ warned' = <<>>
            /\ UNCHANGED coreVars
       ELSE /\ config' = [defined |-> TRUE, instrumentationKey |-> cfg.instrumentationKey,
                          extensions |-> cfg.extensions]
            /\ _notificationManager' = [defined |-> TRUE, listeners |-> <<>>]
            /\ logger' = [defined |-> TRUE, queue |-> <<>>]
            /\ LET merged == Concat(exts, cfg.extensions)
               IN  IF ~AllValid(merged)
                   THEN /\ _extensions' = merged
                        /\ err' = "Extensions must provide callback to initialize"
                        /\ calls' = <<>>
                        /\ warned' = <<>>
                        /\ UNCHANGED <<_isInitialized, _channelController, next>>
                   ELSE LET sorted == SortExtensions(Append(merged, ChannelController))
                            done == LinkCalls(sorted) \o InitializePhase(sorted)
                            queue == ChannelControllerInitialize(sorted).channelQueue
                        IN  /\ _extensions' = sorted
                            /\ warned' = DuplicateWarnings(sorted)
                            /\ calls' = done
                            /\ next' = ApplyCalls(next, done)
                            /\ _channelController' = [initialized |-> TRUE, channelQueue |-> queue]
                            /\ IF NoChannels(queue)
                               THEN /\ err' = "No channels available"
                                    /\ UNCHANGED _isInitialized
                               ELSE /\ err' = "none"
                                    /\ _isInitialized' = TRUE

\* getTransmissionControls()
GetTransmissionControls ==
    /\ op' = OpOf("getTransmissionControls", NoItem, "none")
    /\ err' = "none"
    /\ calls' = <<>>
    /\ ret' = [kind |-> IF _channelController.initialized THEN "controls" ELSE "undefined",
               item |-> NoItem, controls |-> _channelController.channelQueue]
    /\ warned' = <<>>
    /\ tracked' = <<>>
    /\ UNCHANGED <<coreVars, pollVars>>

\* ------------------------------------------------------------------- track

\* NotificationManager.eventsDiscarded(items, reason): every registration is called.
EventsDiscarded(listeners, reason) ==
    [i \in 1..Len(listeners) |->
        Call("eventsDiscarded", listeners[i], reason, "notificationManager")]

\* Lines 245-247: _notififyInvalidEvent: one eventsDiscarded call on the
\* notification manager, which passes it on to its listeners.
NotifyInvalidEvent ==
    <<Call("eventsDiscarded", "notificationManager", "InvalidEvent", "core")>>
    \o EventsDiscarded(_notificationManager.listeners, "InvalidEvent")

\* Defaults without the timestamp.
FillDefaults_NoTime(item) ==
    [item EXCEPT
        !.iKey = IF Falsy(item.iKey) THEN config.instrumentationKey ELSE item.iKey,
        !.ver = IF IsNullOrUndefined(item.ver) THEN "4.0" ELSE item.ver]

\* Lines 154-165: the defaults track writes into the item it was given.
FillDefaults(item) ==
    [item EXCEPT
        !.iKey = IF Falsy(item.iKey) THEN config.instrumentationKey ELSE item.iKey,
        !.time = IF Falsy(item.time) THEN "now" ELSE item.time,
        !.ver = IF IsNullOrUndefined(item.ver) THEN "4.0" ELSE item.ver]

\* A validator that does not look at the name.
ValidateTelemetryItem_NoName(item) ==
    IF IsNullOrUndefined(item.time) THEN "telemetry timestamp required"
    ELSE IF IsNullOrUndefined(item.iKey) THEN "telemetry instrumentationKey required"
    ELSE "none"

\* Lines 227-243: _validateTelmetryItem; the message of the error it throws, or "none".
ValidateTelemetryItem(item) ==
    IF IsNullOrUndefined(item.name) THEN "telemetry name required"
    ELSE IF IsNullOrUndefined(item.time) THEN "telemetry timestamp required"
    ELSE IF IsNullOrUndefined(item.iKey) THEN "telemetry instrumentationKey required"
    ELSE "none"

RECURSIVE DispatchFrom(_, _)
DispatchFrom(s, i) ==
    IF i > Len(s) THEN [err |-> "none", calls |-> <<>>]
    ELSE IF s[i] = NullPlugin THEN [err |-> "TypeError", calls |-> <<>>]
    ELSE IF HasProcessTelemetry(s[i])
         THEN [err |-> "none", calls |-> <<Call("processTelemetry", s[i], "item", "core")>>]
    ELSE DispatchFrom(s, i + 1)

\* A dispatch loop without its break: every processing extension gets the item.
Dispatch_NoBreak(s) ==
    LET able == SelectSeq(s, HasProcessTelemetry)
    IN  [err |-> "none",
         calls |-> [i \in 1..Len(able) |-> Call("processTelemetry", able[i], "item", "core")]]

\* Lines 171-179: the item goes to the first extension that has processTelemetry.
\* Reading processTelemetry of a null entry is a TypeError.
Dispatch(s) == DispatchFrom(s, 1)

\* track(telemetryItem).  A property read on the undefined config or notification
\* manager (neither exists before initialize) is a TypeError.  The hook a caller's
\* track reaches returns; hooks that throw or log are met in Flush.
Track(item) ==
    /\ op' = OpOf("track", item, "none")
    /\ warned' = <<>>
    /\ tracked' = <<>>
    /\ UNCHANGED <<coreVars, pollVars>>
    /\ IF item.isNull
       THEN /\ ret' = [kind |-> "item", item |-> item, controls |-> <<>>]
            /\ IF ~_notificationManager.defined
               THEN err' = "TypeError" /\ calls' = <<>>
               ELSE err' = "Invalid telemetry item" /\ calls' = NotifyInvalidEvent
       ELSE IF Falsy(item.iKey) /\ ~config.defined
       THEN /\ ret' = [kind |-> "item", item |-> item, controls |-> <<>>]
            /\ err' = "TypeError"
            /\ calls' = <<>>
       ELSE LET filled == FillDefaults(item)
                invalid == ValidateTelemetryItem(filled)
            IN  /\ ret' = [kind |-> "item", item |-> filled, controls |-> <<>>]
                /\ IF invalid # "none"
                   THEN IF ~_notificationManager.defined
                        THEN err' = "TypeError" /\ calls' = <<>>
                        ELSE err' = invalid /\ calls' = NotifyInvalidEvent
                   ELSE /\ err' = Dispatch(_extensions).err
                        /\ calls' = Dispatch(_extensions).calls

\* ---------------------------------------------------------------- listeners

\* NotificationManager.addNotificationListener: appends, duplicates and all.
AddListener(listeners, l) == Append(listeners, l)

\* NotificationManager.removeNotificationListener: every occurrence goes.
RemoveListener(listeners, l) ==
    LET Keep(x) == x # l IN SelectSeq(listeners, Keep)

\* addNotificationListener(listener)
AddNotificationListener(l) ==
    /\ Len(_notificationManager.listeners) < MaxListeners
    /\ op' = OpOf("addNotificationListener", NoItem, l)
    /\ calls' = <<>>
    /\ ret' = NoReturn
    /\ warned' = <<>>
    /\ tracked' = <<>>
    /\ UNCHANGED pollVars
    /\ IF ~_notificationManager.defined
       THEN err' = "TypeError" /\ UNCHANGED coreVars
       ELSE /\ err' = "none"
            /\ _notificationManager' =
                 [_notificationManager EXCEPT !.listeners = AddListener(@, l)]
            /\ UNCHANGED <<_isInitialized, _extensions, config, _channelController, next, logger>>

\* removeNotificationListener(listener)
RemoveNotificationListener(l) ==
    /\ op' = OpOf("removeNotificationListener", NoItem, l)
    /\ calls' = <<>>
    /\ ret' = NoReturn
    /\ warned' = <<>>
    /\ tracked' = <<>>
    /\ UNCHANGED pollVars
    /\ IF ~_notificationManager.defined
       THEN err' = "TypeError" /\ UNCHANGED coreVars
       ELSE /\ err' = "none"
            /\ _notificationManager' =
                 [_notificationManager EXCEPT !.listeners = RemoveListener(@, l)]
            /\ UNCHANGED <<_isInitialized, _extensions, config, _channelController, next, logger>>

\* ------------------------------------------------------- diagnostic logger

\* A diagnostic message is appended to logger.queue (by a plugin, or by any other
\* user of core.logger); it is known by its id.
LogMessage ==
    /\ logger.defined
    /\ messageCount < MaxMessages
    /\ logger' = [logger EXCEPT !.queue = Append(@, messageCount + 1)]
    /\ messageCount' = messageCount + 1
    /\ op' = OpOf("log", NoItem, "none")
    /\ err' = "none"
    /\ calls' = <<>>
    /\ ret' = NoReturn
    /\ warned' = <<>>
    /\ tracked' = <<>>
    /\ UNCHANGED <<_isInitialized, _extensions, config, _notificationManager,
                   _channelController, next, polling, submitted>>

\* pollInternalLogs(): reads this.config.diagnosticLogInterval (a TypeError before
\* any initialize got to line 47) and starts the timer; its handle is returned.
\* The period is not modelled: the callback may run at any time from now on.
PollInternalLogs ==
    /\ op' = OpOf("pollInternalLogs", NoItem, "none")
    /\ calls' = <<>>
    /\ warned' = <<>>
    /\ tracked' = <<>>
    /\ UNCHANGED <<coreVars, messageCount, submitted>>
    /\ IF ~config.defined
       THEN err' = "TypeError" /\ ret' = NoReturn /\ UNCHANGED polling
       ELSE /\ err' = "none"
            /\ ret' = [kind |-> "handle", item |-> NoItem, controls |-> <<>>]
            /\ polling' = TRUE

\* Lines 213-219: the telemetry item built for one message.
InternalLogItem ==
    [isNull |-> FALSE, name |-> "InternalMessageId", iKey |-> config.instrumentationKey,
     time |-> "now", ver |-> Undef]

\* Lines 147-180 for a non-null item on a core that has its config: the error
\* track throws, or "none", and the hook calls it makes.
TrackOutcome(item) ==
    LET filled == FillDefaults(item)
        invalid == ValidateTelemetryItem(filled)
    IN  IF invalid # "none" THEN [err |-> invalid, calls |-> NotifyInvalidEvent]
        ELSE Dispatch(_extensions)

\* What the processTelemetry hook that track calls may do with a message's item:
\* return, throw, or log a diagnostic message of its own and return.
HookBehaviours == {"returns", "throws", "logs"}

RECURSIVE Repeat(_, _)
\* cs, k times over.
Repeat(cs, k) == IF k = 0 THEN <<>> ELSE cs \o Repeat(cs, k - 1)

\* The timer's callback (lines 209-224).  forEach visits the messages that are in
\* the queue when it starts, in order, and hands each to track; what a hook
\* appends meanwhile is not visited.  If a track throws, the callback ends there;
\* otherwise queue.length = 0 empties the queue.  bs[i] is what the hook does
\* with message i.
Flush(bs) ==
    LET queue == logger.queue
        n == Len(queue)
        out == TrackOutcome(InternalLogItem)
        hooked == out.err = "none" /\ out.calls # <<>>
        throwing == {i \in 1..n : out.err # "none" \/ bs[i] = "throws"}
        stop == IF throwing = {} THEN 0 ELSE CHOOSE i \in throwing : \A j \in throwing : i <= j
        last == IF stop = 0 THEN n ELSE stop
        logging == {i \in 1..last : bs[i] = "logs"}
        appended == [j \in 1..Cardinality(logging) |-> messageCount + j]
    IN  /\ polling
        /\ Len(bs) = n
        /\ \A i \in 1..n : submitted[queue[i]] < MaxSubmissions
        /\ \A i \in 1..n : (~hooked \/ i > last) => bs[i] = "returns"
        /\ messageCount + Cardinality(logging) <= MaxMessages
        /\ op' = OpOf("flush", NoItem, "none")
        /\ err' = IF stop = 0 THEN "none"
                  ELSE IF out.err # "none" THEN out.err ELSE "plugin error"
        /\ calls' = Repeat(out.calls, last)
        /\ tracked' = SubSeq(queue, 1, last)
        /\ submitted' = [m \in DOMAIN submitted |->
                            IF \E i \in 1..last : queue[i] = m
                            THEN submitted[m] + 1 ELSE submitted[m]]
        /\ messageCount' = messageCount + Cardinality(logging)
        /\ logger' = [logger EXCEPT !.queue = IF stop = 0 THEN <<>> ELSE queue \o appended]
        /\ ret' = NoReturn
        /\ warned' = <<>>
        /\ UNCHANGED <<_isInitialized, _extensions, config, _notificationManager,
                       _channelController, next, polling>>

\* -------------------------------------------------------------------- next

\* The plugins the instance may still be handed.
Remaining == MaxPlugins - (Len(_extensions) - Count(_extensions, ChannelController))

\* The lists one initialize call is given.  An initialized core returns before it
\* reads its arguments (line 39): there one call stands for all.
\* A caller lists an object once: no entry twice in the lists of one call.
NoRepeats(s) == \A i, j \in 1..Len(s) : s[i] = s[j] => i = j
AllSuppliedLists == {s \in SeqsUpTo(Plugins, MaxPlugins) : NoRepeats(s)}
AllConfigLists == {s \in SeqsUpTo(Plugins, MaxConfigExtensions) : NoRepeats(s)}
SuppliedLists ==
    IF AlreadyInitialized THEN {<<>>} ELSE {s \in AllSuppliedLists : Len(s) <= Remaining}
ConfigLists(exts) ==
    IF AlreadyInitialized THEN {<<>>}
    ELSE {s \in AllConfigLists : Len(s) <= Remaining - Len(exts) /\ NoRepeats(exts \o s)}

\* The configurations line 43 rejects; the plugin lists are not read then.
RejectedConfigs == {NullConfig, ConfigOf(Undef, <<>>)}

Next ==
    \/ \E exts \in SuppliedLists : \E cfgExts \in ConfigLists(exts) :
          \E key \in InstrumentationKeys \ {Undef} : Initialize(ConfigOf(key, cfgExts), exts)
    \/ \E cfg \in RejectedConfigs : Initialize(cfg, <<>>)
    \/ GetTransmissionControls
    \/ \E item \in Items : Track(item)
    \/ \E l \in Listeners : AddNotificationListener(l)
    \/ \E l \in Listeners : RemoveNotificationListener(l)

Spec == Init /\ [][Next]_vars

\* The core with its diagnostic logger at work.  The caller hands over channel
\* plugin "h", the two priority-0 plugins and null entries, one configuration and
\* one listener; messages are logged and the poll timer runs.
LoggingPlugins == {NullPlugin, "h"} \cup ZeroPriorityPlugins
LoggingLists ==
    {s \in SeqsUpTo(LoggingPlugins, MaxPlugins) : NoRepeats(s) /\ Len(s) <= Remaining}
LoggingItems ==
    {NullItem, [isNull |-> FALSE, name |-> "evt", iKey |-> Undef, time |-> Undef, ver |-> Undef]}
LoggingListeners == {"l1"}
Behaviours == SeqsUpTo(HookBehaviours, MaxMessages)

NextLogging ==
    \/ \E exts \in (IF AlreadyInitialized THEN {<<>>} ELSE LoggingLists) :
          Initialize(ConfigOf("ikey", <<>>), exts)
    \/ \E cfg \in RejectedConfigs : Initialize(cfg, <<>>)
    \/ GetTransmissionControls
    \/ \E item \in LoggingItems : Track(item)
    \/ \E l \in LoggingListeners : AddNotificationListener(l)
    \/ \E l \in LoggingListeners : RemoveNotificationListener(l)
    \/ LogMessage
    \/ PollInternalLogs
    \/ \E bs \in Behaviours : Flush(bs)

SpecLogging == Init /\ [][NextLogging]_vars

\* ------------------------------------------------------------------ claims

LastWas(name) == op.name = name

\* The positions of s whose entry satisfies Test.
Entries(s) == {s[i] : i \in 1..Len(s)}
CallsOf(hook) == {i \in 1..Len(calls) : calls[i].hook = hook}

\* The processing plugins the core's list holds, the channel controller apart.
HeldProcessing == {p \in Entries(_extensions) : HasProcessTelemetry(p) /\ p # ChannelController}

\* No two entries of the core's list, the channel controller apart, share a priority.
DistinctPriorities ==
    \A i, j \in 1..Len(_extensions) :
        (/\ i # j
         /\ HasProcessTelemetry(_extensions[i]) /\ HasProcessTelemetry(_extensions[j])
         /\ _extensions[i] # ChannelController /\ _extensions[j] # ChannelController)
        => Priority(_extensions[i]) # Priority(_extensions[j])

\* q has the least priority above p's among the plugins of S.
NextHigher(p, q, S) ==
    /\ q \in S
    /\ Priority(q) > Priority(p)
    /\ \A r \in S : Priority(r) > Priority(p) => Priority(q) <= Priority(r)

\* C1: initialize on a core whose earlier initialize succeeded throws "Core should
\* not be initialized more than once", calls no hook, and leaves the plugin list,
\* the successor links, the configuration and the initialized flag as they were.
C1_SecondInitializeRejected ==
    [][(_isInitialized /\ op'.name = "initialize")
        => (/\ err' = "Core should not be initialized more than once"
            /\ calls' = <<>>
            /\ UNCHANGED <<_extensions, next, config, _isInitialized>>)]_vars

C1_Witness ==
    /\ _isInitialized
    /\ LastWas("initialize")
    /\ err = "Core should not be initialized more than once"
    /\ Len(_extensions) > 1

IsFirstAtChannelPriority(q) ==
    \E i \in 1..Len(_extensions) :
        /\ _extensions[i] = q
        /\ HasProcessTelemetry(q) /\ Priority(q) = ChannelControllerPriority
        /\ \A j \in 1..(i - 1) :
              ~(/\ HasProcessTelemetry(_extensions[j])
                /\ Priority(_extensions[j]) = ChannelControllerPriority)

C3_InitOnlyNeverLinkedNorDispatched ==
    /\ \A i \in 1..Len(calls) :
          /\ calls[i].hook = "setNextPlugin" =>
                HasProcessTelemetry(calls[i].on) /\ HasProcessTelemetry(calls[i].arg)
          /\ calls[i].hook = "processTelemetry" => HasProcessTelemetry(calls[i].on)
    /\ \A p \in Plugins \cup {ChannelController} :
          /\ ~HasProcessTelemetry(p) => next[p] = "none"
          /\ next[p] # "none" => HasProcessTelemetry(next[p])

\* An initialize that was given the initialization-only plugin behind a processing
\* plugin (the one in the argument, the other in config.extensions) and linked.
C3_Witness ==
    /\ LastWas("initialize")
    /\ config.extensions = <<"i1">>
    /\ Len(_extensions) = 3
    /\ _extensions[1] = "i1"
    /\ CallsOf("setNextPlugin") # {}

\* The one eventsDiscarded call on the notification manager, passed on once to
\* every registration, and nothing else.
OneDiscardNotification ==
    /\ Len(calls) = 1 + Len(_notificationManager.listeners)
    /\ calls[1] = Call("eventsDiscarded", "notificationManager", "InvalidEvent", "core")
    /\ \A i \in 1..Len(_notificationManager.listeners) :
          calls[i + 1] = Call("eventsDiscarded", _notificationManager.listeners[i],
                              "InvalidEvent", "notificationManager")

\* C4: in every state of the core track(null) throws "Invalid telemetry item",
\* raises exactly one InvalidEvent discard notification, which reaches every
\* registered listener, and calls no processTelemetry.
C4_NullItemRejected ==
    (LastWas("track") /\ op.item.isNull) =>
        /\ err = "Invalid telemetry item"
        /\ OneDiscardNotification

\* C5: after a successful initialize a non-null item without a name is rejected
\* with "telemetry name required"; the calls track made are the one InvalidEvent
\* discard notification, and no processTelemetry.
C5_MissingNameRejected ==
    (_isInitialized /\ LastWas("track") /\ ~op.item.isNull /\ op.item.name = Undef) =>
        /\ err = "telemetry name required"
        /\ OneDiscardNotification

C5_Witness ==
    /\ _isInitialized
    /\ LastWas("track")
    /\ ~op.item.isNull
    /\ op.item.name = Undef
    /\ err = "telemetry name required"
    /\ Len(calls) = 3

\* C6 as stated: a named item without a timestamp is rejected with "telemetry
\* timestamp required", one without an instrumentation key with "telemetry
\* instrumentationKey required", each after a discard notification.
C6_MissingTimeOrKeyRejected ==
    (_isInitialized /\ LastWas("track") /\ ~op.item.isNull /\ op.item.name # Undef) =>
        /\ op.item.time = Undef =>
              err = "telemetry timestamp required" /\ OneDiscardNotification
        /\ (op.item.time # Undef /\ op.item.iKey = Undef) =>
              err = "telemetry instrumentationKey required" /\ OneDiscardNotification

\* C6, amended: no track call ends in "telemetry timestamp required" or "telemetry
\* instrumentationKey required"; after a successful initialize a named item
\* without a timestamp or without an instrumentation key is accepted: it leaves
\* track with the current time, respectively the configured key, no discard
\* notification is raised and the item goes to one processTelemetry.
C6_MissingTimeAndKeyFilled ==
    /\ LastWas("track") =>
          err \notin {"telemetry timestamp required", "telemetry instrumentationKey required"}
    /\ (/\ _isInitialized /\ LastWas("track") /\ ~op.item.isNull /\ op.item.name # Undef
        /\ (op.item.time = Undef \/ op.item.iKey = Undef)) =>
          /\ err = "none"
          /\ op.item.time = Undef => ret.item.time = "now"
          /\ op.item.iKey = Undef => ret.item.iKey = config.instrumentationKey
          /\ CallsOf("eventsDiscarded") = {}
          /\ Cardinality(CallsOf("processTelemetry")) = 1

C6_Witness ==
    /\ _isInitialized
    /\ LastWas("track")
    /\ op.item.name # Undef
    /\ op.item.time = Undef
    /\ op.item.iKey = Undef
    /\ err = "none"
    /\ ret.item.time = "now"

\* The first entry of the core's list that can process an item.
IsFirstProcessing(p) ==
    \E i \in 1..Len(_extensions) :
        /\ _extensions[i] = p
        /\ HasProcessTelemetry(p)
        /\ \A j \in 1..(i - 1) : ~HasProcessTelemetry(_extensions[j])

\* C7: after a successful initialize an item with only a name and an
\* instrumentation key is accepted: it leaves track with a timestamp and version
\* "4.0", its name and key as given, no discard notification is raised, and the
\* one call track makes is processTelemetry on the first processing-capable plugin
\* of the pipeline.
C7_NameAndKeyAccepted ==
    (/\ _isInitialized /\ LastWas("track") /\ ~op.item.isNull
     /\ op.item.name # Undef /\ ~Falsy(op.item.iKey)
     /\ op.item.time = Undef /\ op.item.ver = Undef) =>
        /\ err = "none"
        /\ ret.item = [op.item EXCEPT !.time = "now", !.ver = "4.0"]
        /\ Len(calls) = 1
        /\ calls[1].hook = "processTelemetry"
        /\ IsFirstProcessing(calls[1].on)

\* An accepted item on a pipeline with more than one processing plugin.
C7_Witness ==
    /\ _isInitialized
    /\ LastWas("track")
    /\ op.item = [isNull |-> FALSE, name |-> "evt", iKey |-> "k1", time |-> Undef, ver |-> Undef]
    /\ err = "none"
    /\ Cardinality({i \in 1..Len(_extensions) : HasProcessTelemetry(_extensions[i])}) > 2
    /\ Len(calls) = 1

\* The call got as far as initializing the channel controller.
ReachedChannelController ==
    LastWas("initialize") /\ Call("initialize", ChannelController, "none", "core") \in Entries(calls)

\* C8: an initialize after which the channel controller holds no channel group
\* throws "No channels available" and leaves _isInitialized false; a
\* getTransmissionControls() that follows returns the empty list, and no
\* initialize on a core that is not initialized is rejected as already initialized.
C8_NoChannelsLeavesUninitialized ==
    /\ []((ReachedChannelController /\ _channelController.channelQueue = <<>>)
            => (err = "No channels available" /\ ~_isInitialized))
    /\ [][(/\ LastWas("initialize") /\ err = "No channels available"
           /\ op'.name = "getTransmissionControls")
            => (ret'.kind = "controls" /\ ret'.controls = <<>>)]_vars
    /\ [][(~_isInitialized /\ op'.name = "initialize")
            => err' # "Core should not be initialized more than once"]_vars

\* A second initialize on a core whose first one found no channels: it ran again.
C8_Witness ==
    /\ ReachedChannelController
    /\ err = "No channels available"
    /\ ~_isInitialized
    /\ Count(_extensions, ChannelController) = 2

\* The initialize calls the core itself made on plugins other than the channel controller.
CoreInitializeCalls ==
    LET ByCore(c) == c.hook = "initialize" /\ c.by = "core" /\ c.on # ChannelController
    IN  SelectSeq(calls, ByCore)

\* C9: in an initialize that reaches the initialization phase the first initialize
\* hook called is the channel controller's; then the core calls the initialize hook
\* of every processing plugin with a priority below the channel controller's
\* exactly once, in ascending priority order, and of no other plugin.
C9_InitializeOrder ==
    ReachedChannelController =>
        /\ \A i \in CallsOf("initialize") :
              calls[i].on # ChannelController => \E j \in 1..(i - 1) :
                  calls[j] = Call("initialize", ChannelController, "none", "core")
        /\ \A p \in Entries(_extensions) : IsRegularPlugin(p) =>
              Cardinality({i \in 1..Len(CoreInitializeCalls) : CoreInitializeCalls[i].on = p}) = 1
        /\ \A i \in 1..Len(CoreInitializeCalls) : IsRegularPlugin(CoreInitializeCalls[i].on)
        /\ \A i, j \in 1..Len(CoreInitializeCalls) :
              i < j => Priority(CoreInitializeCalls[i].on) <= Priority(CoreInitializeCalls[j].on)

IsInvalidEntry(p) == p = NullPlugin \/ ~HasInitialize(p)

\* C10: an initialize that gets past the already-initialized and configuration
\* checks with a merged list that holds a null entry or an entry without an
\* initialize hook throws "Extensions must provide callback to initialize", calls
\* no hook and leaves _isInitialized false.
C10_InvalidExtensionRejected ==
    [][(/\ ~_isInitialized
        /\ op'.name = "initialize"
        /\ err' # "Please provide instrumentation key"
        /\ \E i \in 1..Len(_extensions') : IsInvalidEntry(_extensions'[i]))
        => (/\ err' = "Extensions must provide callback to initialize"
            /\ calls' = <<>>
            /\ ~_isInitialized')]_vars

\* The invalid entry came last, from config.extensions, behind a valid plugin.
C10_Witness ==
    /\ LastWas("initialize")
    /\ err = "Extensions must provide callback to initialize"
    /\ config.extensions = <<"noinit">>
    /\ _extensions = <<"a", "noinit">>
    /\ ~_isInitialized

\* C11: initialize on a core that is not initialized, given a null configuration
\* or one whose instrumentation key is absent or empty, throws "Please provide
\* instrumentation key" and leaves config, the plugin list, the notification
\* manager and the logger as they were.
C11_InvalidConfigurationRejected ==
    [][(/\ ~_isInitialized
        /\ op'.name = "initialize"
        /\ op'.key \in {"null", Undef, Empty})
        => (/\ err' = "Please provide instrumentation key"
            /\ UNCHANGED <<config, _extensions, _notificationManager, logger>>)]_vars

\* The call got past the checks of the configuration and of the extensions.
PastValidation ==
    /\ LastWas("initialize")
    /\ err \notin {"Core should not be initialized more than once",
                    "Please provide instrumentation key",
                    "Extensions must provide callback to initialize"}

\* The first processing entry of the core's list that has the priority of entry j.
FirstWithPriorityOf(j) ==
    LET same == {i \in 1..j : /\ HasProcessTelemetry(_extensions[i])
                              /\ Priority(_extensions[i]) = Priority(_extensions[j])}
    IN  CHOOSE i \in same : \A k \in same : i <= k

\* C12: an initialize that gets past validation warns about every processing
\* entry of the sorted list that has the priority of an earlier one, whatever
\* that priority (0 and the channel controller's included), naming the
\* identifier seen first with that priority and the colliding one; it throws
\* nothing for the collision and goes on to initialize the channel controller.
C12_DuplicatePriorityWarned ==
    PastValidation =>
        /\ \A j \in 1..Len(_extensions) :
              (HasProcessTelemetry(_extensions[j]) /\ FirstWithPriorityOf(j) # j) =>
                  \E w \in 1..Len(warned) :
                      warned[w] = Warning(Identifier(_extensions[FirstWithPriorityOf(j)]),
                                          Identifier(_extensions[j]))
        /\ err \in {"none", "No channels available"}
        /\ ReachedChannelController

\* C13: a drain of the logger queue in which no track throws hands to track
\* exactly the messages that were in the queue when it started, in order, and
\* every message appended to the queue while it ran is in the queue when it ends.
C13_FlushKeepsLateMessages ==
    [][(op'.name = "flush" /\ err' = "none") =>
          /\ tracked' = logger.queue
          /\ \A m \in (messageCount + 1)..messageCount' :
                \E i \in 1..Len(logger'.queue) : logger'.queue[i] = m]_vars

\* C14: a track that calls the processTelemetry hook of a plugin is a track on a
\* core whose initialize succeeded (_isInitialized is set at line 140, on success
\* only, and never cleared): none before any initialize, none after a failed one.
C14_TrackDispatchesOnlyWhenInitialized ==
    (/\ LastWas("track")
     /\ \E i \in CallsOf("processTelemetry") : calls[i].on # ChannelController)
    => _isInitialized

\* C15: track, getTransmissionControls, addNotificationListener,
\* removeNotificationListener and a drain of the logger queue leave the plugin
\* list and every successor link as they were, and once the list has been changed
\* (it is empty until then) no later call changes it again.
C15_ListAndLinksMutatedOnce ==
    [][/\ op'.name \in {"track", "getTransmissionControls", "addNotificationListener",
                        "removeNotificationListener", "flush"}
            => UNCHANGED <<_extensions, next>>
       /\ _extensions # <<>> => _extensions' = _extensions]_vars

\* The setNextPlugin calls the core itself made in the last call.
CoreLinkCalls == {i \in CallsOf("setNextPlugin") : calls[i].by = "core"}

\* p has a place in the core's list in front of every channel controller entry.
OrderedBeforeChannelController(p) ==
    \E k \in 1..Len(_extensions) :
        /\ _extensions[k] = p
        /\ \A j \in 1..k : _extensions[j] # ChannelController

\* C16: in one initialize the core calls setNextPlugin at most once on each
\* processing plugin, always handing over an entry that has processTelemetry,
\* never on the channel controller and never on a plugin ordered after it.
C16_SetNextPluginAtMostOnce ==
    LastWas("initialize") =>
        /\ \A i, j \in CoreLinkCalls : calls[i].on = calls[j].on => i = j
        /\ \A i \in CoreLinkCalls :
              /\ HasProcessTelemetry(calls[i].on)
              /\ HasProcessTelemetry(calls[i].arg)
              /\ calls[i].on # ChannelController
              /\ OrderedBeforeChannelController(calls[i].on)

\* An initialization-only plugin: an initialize hook, no processTelemetry.
IsInitializationOnly(p) == p # NullPlugin /\ HasInitialize(p) /\ ~HasProcessTelemetry(p)

\* C17: a successful initialize calls the initialize hook of every
\* initialization-only plugin of the merged list.
C17_InitializationOnlyInitialized ==
    (LastWas("initialize") /\ err = "none") =>
        \A p \in Entries(_extensions) : IsInitializationOnly(p) =>
            \E i \in CallsOf("initialize") : calls[i].on = p

\* C18: whatever initialize calls are made on one instance, failed and retried
\* ones included, the channel controller's initialize hook is not called again
\* once it has been called, and the plugin list never holds the channel
\* controller more than once.
C18_ChannelControllerInitializedOnce ==
    [][/\ _channelController.initialized =>
             \A i \in 1..Len(calls') :
                 ~(calls'[i].hook = "initialize" /\ calls'[i].on = ChannelController)
       /\ Count(_extensions', ChannelController) <= 1]_vars

RECURSIVE ReachesChannelController(_, _)
\* Following the successor links from p for at most n steps ends at the channel controller.
ReachesChannelController(p, n) ==
    \/ p = ChannelController
    \/ /\ n > 0
       /\ p # "none"
       /\ next[p] # "none"
       /\ ReachesChannelController(next[p], n - 1)

\* p is the last processing plugin in front of the channel controller.
IsLastBeforeChannelController(p) ==
    \E k \in 1..(Len(_extensions) - 1) :
        /\ _extensions[k] = p
        /\ HasProcessTelemetry(p)
        /\ _extensions[k + 1] = ChannelController
        /\ \A j \in 1..k : _extensions[j] # ChannelController

\* C19: on a core whose initialize succeeded, the successor links lead from the
\* entry track dispatches to (the first with processTelemetry) to the channel
\* controller: every processing plugin ordered before the channel controller
\* has a successor, and the last of them has the channel controller as successor.
C19_LinksReachChannelController ==
    _isInitialized =>
        /\ \A p \in Entries(_extensions) :
              IsFirstProcessing(p) => ReachesChannelController(p, Len(_extensions))
        /\ \A p \in HeldProcessing :
              OrderedBeforeChannelController(p) => next[p] # "none"
        /\ \A p \in HeldProcessing :
              IsLastBeforeChannelController(p) => next[p] = ChannelController

\* C20: on a core whose initialize succeeded, over all the drains of the logger
\* queue, those cut short by a throwing track included, no diagnostic message is
\* handed to track more than once.
C20_MessageSubmittedAtMostOnce ==
    _isInitialized => \A m \in DOMAIN submitted : submitted[m] <= 1

====
